---- MODULE Spec2Model ----
(***************************************************************************)
(* Payroll core of the smart-hr-system Django application:                 *)
(*   hr_app/models.py  Payroll, its calculators and save()                 *)
(*   hr_app/views.py   generate_bulk_payroll, create_payroll,              *)
(*                     edit_payroll, delete_payroll, the leave and the     *)
(*                     employee handlers                                   *)
(*   hr_app/forms.py   PayrollForm, PayrollCalculationForm                 *)
(*                                                                         *)
(* Amounts are integers counting thousandths of a currency unit.  A value  *)
(* held by a Python object carries the type Python gives it ("int",        *)
(* "dec" for decimal.Decimal, "flt" for float, "none" for None): the       *)
(* source multiplies and adds model fields with the float literals 0.12    *)
(* and 0.133, and Python raises TypeError when a Decimal meets a float.    *)
(* A value read back from a DecimalField(decimal_places=2) column is a     *)
(* Decimal rounded to two places.                                          *)
(***************************************************************************)
EXTENDS Integers, FiniteSets, Sequences, TLC

VARIABLES employees, leaves, payrolls, next_id, obj, last, proc, race, made

vars == <<employees, leaves, payrolls, next_id, obj, last, proc, race, made>>

-----------------------------------------------------------------------------
(* Bounded universes                                                       *)

\* Employee rows that may exist (pk), and each one's Employee.salary in units.
Employees == {"e1", "e2"}

Salary(e) == IF e = "e1" THEN 12180 ELSE 24360

\* Largest auto-increment pk handed out for a Payroll row.
MaxPayrollId == 2

\* Largest auto-increment pk handed out for a LeaveRequest row.
MaxLeaveId == 1

\* Thousandths per currency unit.
Unit == 10 * 10 * 10

-----------------------------------------------------------------------------
(* Python numbers                                                          *)

Val(k, v) == [k |-> k, v |-> v]

PyInt(n) == Val("int", n * Unit)

PyDec(n) == Val("dec", n * Unit)

PyNone == Val("none", 0)

\* The value left by an operator application that raised TypeError.
TypeError == Val("TypeError", 0)

IsErr(x) == x.k = "TypeError"

\* Result type of a binary arithmetic operator (+, -, *): Decimal with float,
\* or anything with None, raises TypeError.
Coerce(a, b) ==
  IF IsErr(a) \/ IsErr(b) THEN "TypeError"
  ELSE IF a.k = "none" \/ b.k = "none" THEN "TypeError"
  ELSE IF {a.k, b.k} = {"dec", "flt"} THEN "TypeError"
  ELSE IF "flt" \in {a.k, b.k} THEN "flt"
  ELSE IF "dec" \in {a.k, b.k} THEN "dec"
  ELSE "int"

\* The result of an operator whose result type is k and value v.
Arith(k, v) == IF k = "TypeError" THEN TypeError ELSE Val(k, v)

Add(a, b) == Arith(Coerce(a, b), a.v + b.v)

Sub(a, b) == Arith(Coerce(a, b), a.v - b.v)

\* x * y of two amounts in thousandths, without leaving 32 bits.
MulMills(x, y) == (x \div Unit) * y + ((x % Unit) * y) \div Unit

Mul(a, b) == Arith(Coerce(a, b), MulMills(a.v, b.v))

\* a / b with b a whole number: int / int is a float in Python 3.
DivKind(k) == IF k = "int" THEN "flt" ELSE k

TrueDiv(a, b) == Arith(DivKind(Coerce(a, b)), a.v \div (b.v \div Unit))

\* min(a, b): b when b < a, else a (comparison never raises here).
Min(a, b) == IF b.v < a.v THEN b ELSE a

\* Truth value of a number: zero and None are falsy.
Truthy(a) == a.k # "none" /\ a.v # 0

\* DecimalField(decimal_places=2): the value a column gives back, in
\* thousandths, rounded half-even to a hundredth.
Quantize(v) ==
  LET q == v \div 10
      r == v % 10
  IN IF r < 5 THEN q * 10
     ELSE IF r > 5 THEN (q + 1) * 10
     ELSE IF q % 2 = 0 THEN q * 10 ELSE (q + 1) * 10

-----------------------------------------------------------------------------
(* Payroll: models.py                                                      *)

\* EMPLOYEE_CONTRIBUTION = 0.12 and EMPLOYER_CONTRIBUTION = 0.133, floats.
EMPLOYEE_CONTRIBUTION == Val("flt", 120)

EMPLOYER_CONTRIBUTION == Val("flt", 133)

\* The PF limit literal 15000 of calculate_epf, an int.
PF_LIMIT == 15000

\* The literal 200 of save(): working hours per month.
WORKING_HOURS == 200

\* default=200 of professional_tax.
DEFAULT_PROFESSIONAL_TAX == 200

\* Payroll(**kwargs): fields not given take the field default, which Django
\* hands over as written (the ints 0 and 200); net_salary has none.
Payroll(e, m, y, kwargs) ==
  [pk |-> 0, employee |-> e, month |-> m, year |-> y,
   basic_salary |-> kwargs.basic_salary,
   house_rent_allowance |->
     IF "house_rent_allowance" \in DOMAIN kwargs
     THEN kwargs.house_rent_allowance ELSE PyInt(0),
   travel_allowance |->
     IF "travel_allowance" \in DOMAIN kwargs
     THEN kwargs.travel_allowance ELSE PyInt(0),
   medical_allowance |->
     IF "medical_allowance" \in DOMAIN kwargs
     THEN kwargs.medical_allowance ELSE PyInt(0),
   special_allowance |->
     IF "special_allowance" \in DOMAIN kwargs
     THEN kwargs.special_allowance ELSE PyInt(0),
   overtime_hours |->
     IF "overtime_hours" \in DOMAIN kwargs
     THEN kwargs.overtime_hours ELSE PyInt(0),
   overtime_rate |->
     IF "overtime_rate" \in DOMAIN kwargs
     THEN kwargs.overtime_rate ELSE PyInt(0),
   professional_tax |->
     IF "professional_tax" \in DOMAIN kwargs
     THEN kwargs.professional_tax ELSE PyInt(DEFAULT_PROFESSIONAL_TAX),
   income_tax |->
     IF "income_tax" \in DOMAIN kwargs
     THEN kwargs.income_tax ELSE PyInt(0),
   other_deductions |->
     IF "other_deductions" \in DOMAIN kwargs
     THEN kwargs.other_deductions ELSE PyInt(0),
   net_salary |-> PyNone,
   paid |-> IF "paid" \in DOMAIN kwargs THEN kwargs.paid ELSE FALSE]

\* calculate_epf: <<employee_pf, employer_pf>>.
Contributions(basic_for_pf) ==
  <<Mul(basic_for_pf, EMPLOYEE_CONTRIBUTION),
    Mul(basic_for_pf, EMPLOYER_CONTRIBUTION)>>

calculate_epf(self) ==
  Contributions(Min(self.basic_salary, PyInt(PF_LIMIT)))

calculate_total_earnings(self) ==
  LET overtime_pay == Mul(self.overtime_hours, self.overtime_rate)
  IN Add(Add(Add(Add(Add(self.basic_salary, self.house_rent_allowance),
                     self.travel_allowance),
                 self.medical_allowance),
             self.special_allowance),
         overtime_pay)

calculate_total_deductions(self) ==
  LET employee_pf == calculate_epf(self)[1]
  IN Add(Add(Add(employee_pf, self.professional_tax), self.income_tax),
         self.other_deductions)

\* A row as the columns give it back: every amount a Decimal of two places.
ToRow(self, pk) ==
  [pk |-> pk, employee |-> self.employee, month |-> self.month,
   year |-> self.year,
   basic_salary |-> Quantize(self.basic_salary.v),
   house_rent_allowance |-> Quantize(self.house_rent_allowance.v),
   travel_allowance |-> Quantize(self.travel_allowance.v),
   medical_allowance |-> Quantize(self.medical_allowance.v),
   special_allowance |-> Quantize(self.special_allowance.v),
   overtime_hours |-> Quantize(self.overtime_hours.v),
   overtime_rate |-> Quantize(self.overtime_rate.v),
   professional_tax |-> Quantize(self.professional_tax.v),
   income_tax |-> Quantize(self.income_tax.v),
   other_deductions |-> Quantize(self.other_deductions.v),
   net_salary |-> Quantize(self.net_salary.v),
   paid |-> self.paid]

\* Payroll.objects.get(pk=...): the instance built from a row.
FromRow(r) ==
  [pk |-> r.pk, employee |-> r.employee, month |-> r.month, year |-> r.year,
   basic_salary |-> Val("dec", r.basic_salary),
   house_rent_allowance |-> Val("dec", r.house_rent_allowance),
   travel_allowance |-> Val("dec", r.travel_allowance),
   medical_allowance |-> Val("dec", r.medical_allowance),
   special_allowance |-> Val("dec", r.special_allowance),
   overtime_hours |-> Val("dec", r.overtime_hours),
   overtime_rate |-> Val("dec", r.overtime_rate),
   professional_tax |-> Val("dec", r.professional_tax),
   income_tax |-> Val("dec", r.income_tax),
   other_deductions |-> Val("dec", r.other_deductions),
   net_salary |-> Val("dec", r.net_salary),
   paid |-> r.paid]

\* A table without the unique_together constraint: no row ever conflicts.
SameKey_unconstrained(rows, self) == {}

\* A database that enforces the foreign key only.
IntegrityOK_fk_only(rows, emps, self) == self.employee \in emps

\* unique_together = ['employee', 'month', 'year']: rows other than pk that
\* hold the key of self.
SameKey(rows, self) ==
  {r \in rows : r.pk # self.pk /\ r.employee = self.employee
                /\ r.month = self.month /\ r.year = self.year}

\* The database's answer to the INSERT or UPDATE of super().save(): the
\* unique_together constraint and the employee foreign key.
IntegrityOK(rows, emps, self) ==
  SameKey(rows, self) = {} /\ self.employee \in emps

\* save(), lines 88-90: self.net_salary = total_earnings - total_deductions
\* (TypeError in net_salary when one of the three operations raised).
SetNetSalary(self) ==
  [self EXCEPT !.net_salary = Sub(calculate_total_earnings(self),
                                  calculate_total_deductions(self))]

\* save(), lines 93-94: the overtime_rate default.
SetOvertimeRate(self) ==
  IF ~Truthy(self.overtime_rate)
  THEN [self EXCEPT !.overtime_rate =
          TrueDiv(self.basic_salary, PyInt(WORKING_HOURS))]
  ELSE self

\* The pk the row is written under: a new one for an instance without pk.
WithPk(self, new_pk) == IF self.pk = 0 THEN [self EXCEPT !.pk = new_pk] ELSE self

\* save(), line 96, super().save() of the instance `done` that lines 88-94
\* made of `self`: [outcome, self (the instance afterwards), rows].
SuperSave(done, self, rows, emps, new_pk) ==
  IF IsErr(done.net_salary)
  THEN [outcome |-> "TypeError", self |-> self, rows |-> rows]
  ELSE IF ~IntegrityOK(rows, emps, WithPk(done, new_pk))
  THEN [outcome |-> "IntegrityError", self |-> done, rows |-> rows]
  ELSE [outcome |-> "saved", self |-> WithPk(done, new_pk),
        rows |-> {r \in rows : r.pk # WithPk(done, new_pk).pk}
                 \cup {ToRow(WithPk(done, new_pk), WithPk(done, new_pk).pk)}]

\* Payroll.save(): net_salary first, then the overtime_rate default, then
\* the write.
save(self, rows, emps, new_pk) ==
  SuperSave(SetOvertimeRate(SetNetSalary(self)), self, rows, emps, new_pk)

-----------------------------------------------------------------------------
(* State                                                                   *)
(*   employees  pks of the Employee rows                                   *)
(*   leaves     LeaveRequest rows                                          *)
(*   payrolls   Payroll rows                                               *)
(*   next_id    next auto-increment pk of Payroll and of LeaveRequest      *)
(*   obj        the Payroll instance a caller of the model API holds       *)
(*   last       what the last request or call did and answered             *)
(*   proc       the two workers serving generate_bulk_payroll requests     *)
(*   race       the key both workers found absent before either wrote      *)
(*   made       pks of the rows generate_bulk_payroll inserted             *)

NoObj == [pk |-> -1]

NoKey == [employee |-> "none"]

Workers == {1, 2}

IdleProc ==
  [pc |-> "idle", month |-> "none", year |-> 0, todo |-> {}, cur |-> "none",
   created_count |-> 0, lacking |-> 0, solo |-> TRUE, second |-> FALSE,
   fresh |-> FALSE]

-----------------------------------------------------------------------------
(* The model API: Payroll(...), save(), Payroll.objects.get()              *)

\* The key and the field values a caller of the model API passes.
ApiKey == [employee |-> "e1", month |-> "June", year |-> 2024]

ApiKinds == {"int", "dec"}

ApiBasics == {0, 12181, 20000, 30000}

ApiHours == {0, 10}

ApiRates == {0, 50}

ApiOther == {0, 500}

\* Field values as Python ints: only the fields named are passed.
IntData(b, h, r, od) ==
  [basic_salary |-> PyInt(b), overtime_hours |-> PyInt(h),
   overtime_rate |-> PyInt(r), other_deductions |-> PyInt(od)]

\* Field values as a ModelForm's cleaned_data gives them: every amount a
\* Decimal (forms.DecimalField), every field present.
CleanedData(b, h, r, od, paid) ==
  [basic_salary |-> PyDec(b), house_rent_allowance |-> PyDec(0),
   travel_allowance |-> PyDec(0), medical_allowance |-> PyDec(0),
   special_allowance |-> PyDec(0), overtime_hours |-> PyDec(h),
   overtime_rate |-> PyDec(r),
   professional_tax |-> PyDec(DEFAULT_PROFESSIONAL_TAX),
   income_tax |-> PyDec(0), other_deductions |-> PyDec(od), paid |-> paid]

\* obj = Payroll(employee=..., month=..., year=..., **data)
payroll_init(k, b, h, r, od) ==
  /\ obj' = Payroll(ApiKey.employee, ApiKey.month, ApiKey.year,
                    IF k = "int" THEN IntData(b, h, r, od)
                    ELSE CleanedData(b, h, r, od, FALSE))
  /\ last' = [op |-> "init", outcome |-> "ok"]
  /\ UNCHANGED <<employees, leaves, payrolls, next_id, proc, race, made>>

\* obj.calculate_epf(), obj.calculate_total_deductions()
payroll_calculate ==
  /\ obj # NoObj
  /\ last' = [op |-> "calculate", outcome |-> "ok", self |-> obj,
              epf |-> calculate_epf(obj),
              total_deductions |-> calculate_total_deductions(obj)]
  /\ UNCHANGED <<employees, leaves, payrolls, next_id, obj, proc, race, made>>

\* The counter after an INSERT that took pk next_id.payroll.
TakePk(inserted) ==
  IF inserted THEN [next_id EXCEPT !.payroll = @ + 1] ELSE next_id

\* What obj.save() leaves behind, res being the answer of save().
payroll_save_done(res) ==
  /\ obj' = res.self
  /\ payrolls' = res.rows
  /\ next_id' = TakePk(res.outcome = "saved" /\ obj.pk = 0)
  /\ last' = [op |-> "save", outcome |-> res.outcome, self |-> obj,
              pk |-> res.self.pk]
  /\ UNCHANGED <<employees, leaves, proc, race, made>>

\* obj.save()
payroll_save ==
  /\ obj # NoObj
  /\ obj.pk = 0 => next_id.payroll <= MaxPayrollId
  /\ payroll_save_done(save(obj, payrolls, employees, next_id.payroll))

\* obj = Payroll.objects.get(pk=pk)
payroll_get(pk) ==
  /\ \E r \in payrolls : r.pk = pk /\ obj' = FromRow(r)
  /\ last' = [op |-> "get", outcome |-> "ok"]
  /\ UNCHANGED <<employees, leaves, payrolls, next_id, proc, race, made>>

InitApi ==
  /\ employees = Employees
  /\ leaves = {}
  /\ payrolls = {}
  /\ next_id = [payroll |-> 1, leave |-> 1]
  /\ obj = NoObj
  /\ last = [op |-> "none", outcome |-> "ok"]
  /\ proc = [w \in Workers |-> IdleProc]
  /\ race = NoKey
  /\ made = {}

NextApi ==
  \/ \E k \in ApiKinds, b \in ApiBasics, h \in ApiHours, r \in ApiRates,
        od \in ApiOther : payroll_init(k, b, h, r, od)
  \/ payroll_calculate
  \/ payroll_save
  \/ \E pk \in 1..MaxPayrollId : payroll_get(pk)

\* The model API exercised alone.
SpecApi == InitApi /\ [][NextApi]_vars

-----------------------------------------------------------------------------
(* Calendar and forms: forms.py, calendar.monthrange                       *)

MONTH_CHOICES ==
  <<"January", "February", "March", "April", "May", "June", "July",
    "August", "September", "October", "November", "December">>

MonthNames == {MONTH_CHOICES[i] : i \in 1..12}

\* list(form.fields['month'].choices).index((month, month)) + 1
MonthNum(m) == CHOOSE i \in 1..12 : MONTH_CHOICES[i] = m

IsLeap(y) == y % 4 = 0 /\ (y % 100 # 0 \/ y % 400 = 0)

\* calendar.monthrange(year, month_num)[1]
monthrange(y, n) ==
  IF n = 2 THEN (IF IsLeap(y) THEN 29 ELSE 28)
  ELSE IF n \in {4, 6, 9, 11} THEN 30 ELSE 31

\* PayrollCalculationForm: month a ChoiceField over MONTH_CHOICES, year an
\* IntegerField with min_value=2020 and max_value=2030.
MIN_YEAR == 2020

MAX_YEAR == 2030

PayrollCalculationForm_is_valid(m, y) ==
  m \in MonthNames /\ y >= MIN_YEAR /\ y <= MAX_YEAR

\* PayrollForm: a ModelForm; besides the field checks it runs the model's
\* validate_unique() on (employee, month, year), leaving out the instance.
PayrollForm_is_valid(rows, emps, self) ==
  self.employee \in emps /\ SameKey(rows, self) = {}

-----------------------------------------------------------------------------
(* Leave ledger query of generate_bulk_payroll                             *)

RECURSIVE SumSpan(_)
SumSpan(S) ==
  IF S = {} THEN 0
  ELSE LET l == CHOOSE x \in S : TRUE IN l.span + SumSpan(S \ {l})

\* LeaveRequest.objects.filter(employee, status='Approved',
\*   start_date__month, start_date__year)
ApprovedLeaves(rows, e, month_num, y) ==
  {l \in rows : l.employee = e /\ l.status = "Approved"
               /\ l.start.month = month_num /\ l.start.year = y}

\* .aggregate(Sum(end_date - start_date)), then .days, 0 when there is none
unpaid_leaves(rows, e, month_num, y) ==
  LET q == ApprovedLeaves(rows, e, month_num, y)
  IN IF q = {} THEN 0 ELSE SumSpan(q)

\* The keyword arguments generate_bulk_payroll passes to
\* Payroll.objects.create for one employee.
BulkKwargs(lvs, e, m, y) ==
  LET month_num == MonthNum(m)
      days_in_month == monthrange(y, month_num)
      basic_salary == PyDec(Salary(e))
      daily_rate == IF days_in_month = 0 THEN PyDec(0)
                    ELSE TrueDiv(basic_salary, PyDec(days_in_month))
      leave_deduction ==
        Mul(daily_rate, PyDec(unpaid_leaves(lvs, e, month_num, y)))
  IN [basic_salary |-> basic_salary,
      house_rent_allowance |-> Mul(basic_salary, Val("dec", 150)),
      travel_allowance |-> Mul(basic_salary, Val("dec", 100)),
      other_deductions |-> leave_deduction]

HasPayroll(rows, e, m, y) ==
  \E r \in rows : r.employee = e /\ r.month = m /\ r.year = y

-----------------------------------------------------------------------------
(* Bookkeeping on the workers (read by the properties only)                *)
(*   lacking  roster employees without a record for the period at start    *)
(*   solo     nothing else wrote rows or changed the roster during the run *)
(*   second   the run began after a finished run for the same period       *)
(*   fresh    no row was deleted and the roster is as it was since start   *)

Running(w) == proc[w].pc \in {"loop", "checked"}

Finished(w) == proc[w].pc \in {"done", "error"}

\* proc after something other than worker `by` wrote (removed = a row or an
\* employee went away, or the roster grew).
Disturb(P, by, removed) ==
  [w \in Workers |->
     IF w = by THEN P[w]
     ELSE [P[w] EXCEPT
             !.solo = IF P[w].pc \in {"loop", "checked"} THEN FALSE ELSE @,
             !.fresh = IF removed THEN FALSE ELSE @,
             !.second = IF removed THEN FALSE ELSE @]]

\* The for loop's exit: with no employee left the view reports created_count
\* (messages.success) and redirects.
EndLoop(P, w) ==
  IF P[w].pc = "loop" /\ P[w].todo = {} THEN [P EXCEPT ![w].pc = "done"] ELSE P

\* What `last` holds after a step no property reads the answer of.
Other == [op |-> "other", outcome |-> "ok"]

-----------------------------------------------------------------------------
(* generate_bulk_payroll: views.py 274-350, one action per database step   *)
(* another request can come between                                        *)

\* POST up to the start of the loop.  With an invalid
\* PayrollCalculationForm the form is rendered again with its errors; with a
\* valid one: employees = Employee.objects.all(), created_count = 0.
bulk_start(w, m, y) ==
  /\ proc[w].pc = "idle"
  /\ IF ~PayrollCalculationForm_is_valid(m, y)
     THEN /\ proc' = proc
          /\ last' = [op |-> "generate_bulk_payroll", outcome |-> "invalid"]
     ELSE /\ proc' = EndLoop([proc EXCEPT ![w] =
               [pc |-> "loop", month |-> m, year |-> y, todo |-> employees,
                cur |-> "none", created_count |-> 0,
                lacking |-> Cardinality({e \in employees :
                                           ~HasPayroll(payrolls, e, m, y)}),
                solo |-> \A q \in Workers \ {w} : ~Running(q),
                second |-> \E q \in Workers \ {w} :
                             /\ Finished(q) /\ proc[q].fresh
                             /\ proc[q].month = m /\ proc[q].year = y,
                fresh |-> TRUE]], w)
          /\ last' = Other
  /\ UNCHANGED <<employees, leaves, payrolls, next_id, obj, race, made>>

\* Next employee of the loop and the existence check: continue, or go on to
\* compute and create.
bulk_check(w) ==
  /\ proc[w].pc = "loop"
  /\ \E e \in proc[w].todo :
       IF HasPayroll(payrolls, e, proc[w].month, proc[w].year)
       THEN /\ proc' = EndLoop([proc EXCEPT ![w].todo = @ \ {e}], w)
            /\ last' = Other
            /\ race' = race
       ELSE /\ proc' = [proc EXCEPT ![w].todo = @ \ {e}, ![w].cur = e,
                                    ![w].pc = "checked"]
            /\ last' = Other
            /\ race' = IF \E q \in Workers \ {w} :
                            /\ proc[q].pc = "checked" /\ proc[q].cur = e
                            /\ proc[q].month = proc[w].month
                            /\ proc[q].year = proc[w].year
                       THEN [employee |-> e, month |-> proc[w].month,
                             year |-> proc[w].year]
                       ELSE race
  /\ UNCHANGED <<employees, leaves, payrolls, next_id, obj, made>>

\* proc after somebody (worker `by`, or 0 for another request) got the
\* answer `outcome` from a write.
Wrote(outcome, by, removed) ==
  IF outcome = "saved" THEN Disturb(proc, by, removed) ELSE proc

\* try: create, created_count += 1; except IntegrityError: pass
bulk_create_done(w, e, m, y, outcome, rows) ==
  /\ payrolls' = rows
  /\ next_id' = TakePk(outcome = "saved")
  /\ made' = IF outcome = "saved" THEN made \cup {next_id.payroll} ELSE made
  /\ proc' = EndLoop([Wrote(outcome, w, FALSE) EXCEPT
                        ![w].cur = "none",
                        ![w].pc = IF outcome \in {"saved", "IntegrityError"}
                                  THEN "loop" ELSE "error",
                        ![w].created_count =
                           IF outcome = "saved" THEN @ + 1 ELSE @], w)
  /\ last' = [op |-> "bulk_create", outcome |-> outcome,
              employee |-> e, month |-> m, year |-> y,
              unpaid_leaves |-> unpaid_leaves(leaves, e, MonthNum(m), y),
              other_deductions |->
                BulkKwargs(leaves, e, m, y).other_deductions.v]
  /\ UNCHANGED <<employees, leaves, obj, race>>

bulk_create_res(w, e, m, y, res) ==
  bulk_create_done(w, e, m, y, res.outcome, res.rows)

\* Lines 298-343 for the employee that passed the check: the amounts, then
\* Payroll.objects.create inside try/except IntegrityError.  Any other
\* exception leaves the view.
bulk_create(w) ==
  /\ proc[w].pc = "checked"
  /\ next_id.payroll <= MaxPayrollId
  /\ bulk_create_res(w, proc[w].cur, proc[w].month, proc[w].year,
       save(Payroll(proc[w].cur, proc[w].month, proc[w].year,
                    BulkKwargs(leaves, proc[w].cur, proc[w].month,
                               proc[w].year)),
            payrolls, employees, next_id.payroll))

-----------------------------------------------------------------------------
(* create_payroll, edit_payroll, delete_payroll: views.py 394-433          *)

\* The period and the basic_salary a request carried.
Posted(self) ==
  [month |-> self.month, year |-> self.year,
   basic_salary |-> self.basic_salary.v]

\* What a request that wrote through save() leaves behind.
write_done(op, dup, self, res, removed) ==
  /\ payrolls' = res.rows
  /\ next_id' = TakePk(res.outcome = "saved" /\ op # "edit_payroll")
  /\ proc' = Wrote(res.outcome, 0, removed)
  /\ last' = [op |-> op, outcome |-> res.outcome, dup |-> dup,
              data |-> Posted(self)]
  /\ UNCHANGED <<employees, leaves, obj, race, made>>

\* What a request whose form did not validate leaves behind: the form is
\* rendered again with its errors.
form_invalid(op, dup, self) ==
  /\ last' = [op |-> op, outcome |-> "invalid", dup |-> dup,
              data |-> Posted(self)]
  /\ UNCHANGED <<employees, leaves, payrolls, next_id, obj, proc, race, made>>

create_payroll_post(self, dup) ==
  IF ~PayrollForm_is_valid(payrolls, employees, self)
  THEN form_invalid("create_payroll", dup, self)
  ELSE write_done("create_payroll", dup, self,
                  save(self, payrolls, employees, next_id.payroll), FALSE)

\* POST to create_payroll (urls.py routes it without employee_id).
create_payroll(e, m, y, b) ==
  /\ next_id.payroll <= MaxPayrollId \/ HasPayroll(payrolls, e, m, y)
  /\ create_payroll_post(Payroll(e, m, y, CleanedData(b, 0, 0, 0, FALSE)),
                         HasPayroll(payrolls, e, m, y))

edit_payroll_post(self) ==
  IF ~PayrollForm_is_valid(payrolls, employees, self)
  THEN form_invalid("edit_payroll", FALSE, self)
  ELSE write_done("edit_payroll", FALSE, self,
                  save(self, payrolls, employees, self.pk), TRUE)

\* POST to edit_payroll for an existing row: every form field is written
\* onto the instance, then form.save().
edit_payroll(pk, e, m, y, b, paid) ==
  \E r \in payrolls :
    /\ r.pk = pk
    /\ edit_payroll_post([Payroll(e, m, y, CleanedData(b, 0, 0, 0, paid))
                            EXCEPT !.pk = pk,
                                   !.net_salary = Val("dec", r.net_salary)])

\* POST to delete_payroll.
delete_payroll(pk) ==
  /\ \E r \in payrolls : r.pk = pk
  /\ payrolls' = {r \in payrolls : r.pk # pk}
  /\ proc' = Disturb(proc, 0, TRUE)
  /\ last' = [op |-> "delete_payroll", outcome |-> "ok"]
  /\ UNCHANGED <<employees, leaves, next_id, obj, race, made>>

\* Payroll.objects.create(employee=e, month=m, year=y, basic_salary=b) with
\* b a Python int: the model API called with the values its own field
\* defaults have.
objects_create(e, m, y, b) ==
  /\ next_id.payroll <= MaxPayrollId \/ HasPayroll(payrolls, e, m, y)
  /\ write_done("objects_create", HasPayroll(payrolls, e, m, y),
                Payroll(e, m, y, IntData(b, 0, 0, 0)),
                save(Payroll(e, m, y, IntData(b, 0, 0, 0)),
                     payrolls, employees, next_id.payroll), FALSE)

-----------------------------------------------------------------------------
(* The payroll store with its handlers and two concurrent bulk requests    *)

StoreMonths == {"June"}

StoreYears == {2024}

\* basic_salary a form posts, and the one the model API is called with.
FormBasics == {30000}

StoreApiBasics == {20000}

Init == InitApi

Next ==
  \/ \E w \in Workers, m \in StoreMonths, y \in StoreYears :
       \* the workers are interchangeable: worker 2 takes a request only
       \* once worker 1 has taken one
       (w = 2 => proc[1].pc # "idle") /\ bulk_start(w, m, y)
  \/ \E w \in Workers : bulk_check(w)
  \/ \E w \in Workers : bulk_create(w)
  \/ \E e \in Employees, m \in StoreMonths, y \in StoreYears,
        b \in FormBasics : create_payroll(e, m, y, b)
  \/ \E pk \in 1..MaxPayrollId, e \in Employees, m \in StoreMonths,
        y \in StoreYears, b \in FormBasics, paid \in BOOLEAN :
       edit_payroll(pk, e, m, y, b, paid)
  \/ \E pk \in 1..MaxPayrollId : delete_payroll(pk)
  \/ \E e \in Employees, m \in StoreMonths, y \in StoreYears,
        b \in StoreApiBasics : objects_create(e, m, y, b)

Spec == Init /\ [][Next]_vars

-----------------------------------------------------------------------------
(* Leave and employee handlers: views.py 31-43, 112-231, 585-593           *)

\* Logged-in users: "admin" is staff without an Employee profile; an
\* employee's user carries the employee's name.
Users == {"admin"} \cup Employees

\* Employees whose department name contains "hr".
HrDepartment == {"e1"}

is_hr_staff(user) ==
  user = "admin" \/ (user \in employees /\ user \in HrDepartment)

\* start_date (year and month) and end_date - start_date in days of the
\* leave an employee posts; LeaveRequestForm does not compare the two dates.
LeaveStarts ==
  {[year |-> 2023, month |-> 2], [year |-> 2024, month |-> 2],
   [year |-> 2024, month |-> 6]}

LeaveSpans == {-1, 0, 1}

\* POST to apply_leave by the user of employee e.
apply_leave(e, start, span) ==
  /\ e \in employees
  /\ next_id.leave <= MaxLeaveId
  /\ leaves' = leaves \cup
       {[pk |-> next_id.leave, employee |-> e, start |-> start,
         span |-> span, status |-> "Pending"]}
  /\ next_id' = [next_id EXCEPT !.leave = @ + 1]
  /\ last' = [op |-> "apply_leave", outcome |-> "ok"]
  /\ UNCHANGED <<employees, payrolls, obj, proc, race, made>>

\* What a request to approve_leave or reject_leave leaves behind: the view,
\* the user who sent it, the leave it named and the message it flashed.
Decided(op, user, leave, outcome) ==
  [op |-> op, outcome |-> outcome, user |-> user, leave |-> leave.pk]

\* The two views without the comparison of leave.employee with the
\* Employee profile of request.user.
decide_leave_any_user(op, user, leave, status) ==
  /\ is_hr_staff(user)
  /\ leave \in leaves
  /\ IF leave.status # status
     THEN /\ leaves' = (leaves \ {leave})
                         \cup {[leave EXCEPT !.status = status]}
          /\ last' = Decided(op, user, leave, "changed")
     ELSE /\ leaves' = leaves
          /\ last' = Decided(op, user, leave, "already")
  /\ UNCHANGED <<employees, payrolls, next_id, obj, proc, race, made>>

\* approve_leave and reject_leave differ in the status they write.
decide_leave(op, user, leave, status) ==
  /\ is_hr_staff(user)
  /\ leave \in leaves
  /\ IF user \in employees /\ leave.employee = user
     THEN /\ leaves' = leaves
          /\ last' = Decided(op, user, leave, "own request")
     ELSE IF leave.status # status
     THEN /\ leaves' = (leaves \ {leave})
                         \cup {[leave EXCEPT !.status = status]}
          /\ last' = Decided(op, user, leave, "changed")
     ELSE /\ leaves' = leaves
          /\ last' = Decided(op, user, leave, "already")
  /\ UNCHANGED <<employees, payrolls, next_id, obj, proc, race, made>>

approve_leave(user, leave) ==
  decide_leave("approve_leave", user, leave, "Approved")

reject_leave(user, leave) ==
  decide_leave("reject_leave", user, leave, "Rejected")

\* POST to delete_employee: the Employee row goes, and with it (CASCADE)
\* the employee's LeaveRequest and Payroll rows.
delete_employee(user, e) ==
  /\ is_hr_staff(user)
  /\ e \in employees
  /\ employees' = employees \ {e}
  /\ leaves' = {l \in leaves : l.employee # e}
  /\ payrolls' = {r \in payrolls : r.employee # e}
  /\ proc' = Disturb(proc, 0, TRUE)
  /\ last' = [op |-> "delete_employee", outcome |-> "ok"]
  /\ UNCHANGED <<next_id, obj, race, made>>

\* Periods a bulk request names.
HrPeriods ==
  {[month |-> "February", year |-> 2023], [month |-> "February", year |-> 2024],
   [month |-> "June", year |-> 2024]}

NextHr ==
  \/ \E e \in Employees, start \in LeaveStarts, span \in LeaveSpans :
       apply_leave(e, start, span)
  \/ \E u \in Users, l \in leaves : approve_leave(u, l)
  \/ \E u \in Users, l \in leaves : reject_leave(u, l)
  \/ \E u \in Users, e \in Employees : delete_employee(u, e)
  \/ \E p \in HrPeriods : bulk_start(1, p.month, p.year)
  \/ bulk_check(1)
  \/ bulk_create(1)

\* The leave ledger, the roster and one bulk request.
SpecHr == Init /\ [][NextHr]_vars

-----------------------------------------------------------------------------
(* generate_payslip_pdf: views.py 451-542                                  *)

\* What the request answers when an operation on the record's fields raised.
PayslipError(pk) ==
  [op |-> "generate_payslip_pdf", outcome |-> "TypeError", pk |-> pk]

\* Lines 479-542: the tables, the totals rows, the title, the info table and
\* the net salary paragraph that make up the document.
payslip_story(payroll, epf, total_earnings, total_deductions) ==
  IF IsErr(total_earnings) \/ IsErr(total_deductions)
  THEN PayslipError(payroll.pk)
  ELSE [op |-> "generate_payslip_pdf", outcome |-> "ok", pk |-> payroll.pk,
        story |->
          [title |-> payroll.employee,
           info |-> [employee_id |-> payroll.employee,
                     month |-> payroll.month, year |-> payroll.year,
                     position |-> payroll.employee],
           earnings |->
             <<<<"Basic Salary", payroll.basic_salary.v>>,
               <<"House Rent Allowance", payroll.house_rent_allowance.v>>,
               <<"Travel Allowance", payroll.travel_allowance.v>>,
               <<"Medical Allowance", payroll.medical_allowance.v>>,
               <<"Special Allowance", payroll.special_allowance.v>>,
               <<"Total Earnings", total_earnings.v>>>>,
           deductions |->
             <<<<"Professional Tax", payroll.professional_tax.v>>,
               <<"Income Tax", payroll.income_tax.v>>,
               <<"Other Deductions", payroll.other_deductions.v>>,
               <<"Employee PF", epf[1].v>>,
               <<"Total Deductions", total_deductions.v>>>>,
           net_salary |-> payroll.net_salary.v]]

\* Line 477 onwards for the payroll object the query returned.
payslip_tables(payroll, epf) ==
  IF IsErr(epf[1]) \/ IsErr(epf[2])
  THEN PayslipError(payroll.pk)
  ELSE payslip_story(payroll, epf, calculate_total_earnings(payroll),
                     calculate_total_deductions(payroll))

\* Lines 456-462: HR staff may fetch any payroll, others only their own.
VisiblePayrolls(user, pk) ==
  {r \in payrolls : r.pk = pk /\ (is_hr_staff(user) \/ r.employee = user)}

\* GET generate_payslip_pdf/<pk> by a logged-in user.
generate_payslip_pdf(user, pk) ==
  /\ IF VisiblePayrolls(user, pk) = {}
     THEN last' = [op |-> "generate_payslip_pdf", outcome |-> "404",
                   pk |-> pk]
     ELSE \E r \in VisiblePayrolls(user, pk) :
            last' = payslip_tables(FromRow(r), calculate_epf(FromRow(r)))
  /\ UNCHANGED <<employees, leaves, payrolls, next_id, obj, proc, race, made>>

NextPayslip ==
  \/ NextApi
  \/ \E u \in Users, pk \in 1..MaxPayrollId : generate_payslip_pdf(u, pk)

\* Records made through the model API, and their payslips.
SpecPayslip == InitApi /\ [][NextPayslip]_vars

-----------------------------------------------------------------------------
(* The roster and the payroll table                                        *)

NextRoster ==
  \/ \E e \in Employees, m \in StoreMonths, y \in StoreYears,
        b \in StoreApiBasics : objects_create(e, m, y, b)
  \/ \E e \in Employees, m \in StoreMonths, y \in StoreYears,
        b \in FormBasics : create_payroll(e, m, y, b)
  \/ \E u \in Users, e \in Employees : delete_employee(u, e)
  \/ \E pk \in 1..MaxPayrollId : delete_payroll(pk)
  \/ \E m \in StoreMonths, y \in StoreYears : bulk_start(1, m, y)
  \/ bulk_check(1)
  \/ bulk_create(1)

\* Payroll rows while employees are deleted.
SpecRoster == Init /\ [][NextRoster]_vars

-----------------------------------------------------------------------------
(* The forms under well-formed and malformed input                         *)

\* Values a request may carry: a month name outside MONTH_CHOICES, a year
\* outside 2020..2030, a negative basic_salary.
PostedMonths == {"June", "Smarch"}

PostedYears == {2024, 2031}

PostedBasics == {30000, -100}

NextForms ==
  \/ \E e \in Employees, m \in PostedMonths, y \in PostedYears,
        b \in PostedBasics : create_payroll(e, m, y, b)
  \/ \E pk \in 1..MaxPayrollId, m \in PostedMonths, y \in PostedYears,
        b \in PostedBasics : edit_payroll(pk, "e1", m, y, b, FALSE)
  \/ \E pk \in 1..MaxPayrollId : delete_payroll(pk)
  \/ \E m \in StoreMonths, y \in StoreYears, b \in StoreApiBasics :
       objects_create("e1", m, y, b)
  \/ \E m \in PostedMonths, y \in PostedYears : bulk_start(1, m, y)
  \/ bulk_check(1)
  \/ bulk_create(1)

\* PayrollForm and PayrollCalculationForm posted with any of these values.
SpecForms == Init /\ [][NextForms]_vars

-----------------------------------------------------------------------------
(* What the specification promises of a record, computed from the row's    *)
(* columns in exact arithmetic (thousandths)                               *)

PfBase(basic) == IF basic > PF_LIMIT * Unit THEN PF_LIMIT * Unit ELSE basic

\* base x 0.12 and base x 0.133
EmployeePf(basic) == MulMills(PfBase(basic), 120)

EmployerPf(basic) == MulMills(PfBase(basic), 133)

TotalEarnings(r) ==
  r.basic_salary + r.house_rent_allowance + r.travel_allowance
  + r.medical_allowance + r.special_allowance
  + MulMills(r.overtime_hours, r.overtime_rate)

TotalDeductions(r) ==
  EmployeePf(r.basic_salary) + r.professional_tax + r.income_tax
  + r.other_deductions

\* The row holding the key of a Payroll instance.
RowsOf(self) ==
  {r \in payrolls : r.employee = self.employee /\ r.month = self.month
                    /\ r.year = self.year}

-----------------------------------------------------------------------------
(* Properties of the model API (SpecApi)                                   *)

\* C1: every persisted record's net_salary equals total_earnings minus
\* total_deductions computed from the persisted fields of that same record
\* (overtime pay at the persisted, defaulted overtime_rate included).
C1_NetSalaryFromPersistedFields ==
  \A r \in payrolls :
    r.net_salary = Quantize(TotalEarnings(r) - TotalDeductions(r))

\* C8: after save() of a record (one the store has no reason to refuse as a
\* duplicate), the record is persisted and its overtime_rate is
\* basic_salary / 200 when the rate was zero or unset, and the given rate
\* otherwise (to the two decimal places of the column).
C8_OvertimeRateDefaulted ==
  (last.op = "save" /\ last.outcome # "IntegrityError") =>
    \E r \in RowsOf(last.self) :
      r.overtime_rate =
        IF last.self.overtime_rate.v = 0
        THEN Quantize(last.self.basic_salary.v \div WORKING_HOURS)
        ELSE Quantize(last.self.overtime_rate.v)

\* C9: for every basic_salary calculate_epf returns employee_pf =
\* min(basic_salary, 15000) x 0.12 and employer_pf = min(basic_salary, 15000)
\* x 0.133, and calculate_total_deductions returns employee_pf +
\* professional_tax + income_tax + other_deductions (no employer_pf).
C9_EpfAndTotalDeductions ==
  last.op = "calculate" =>
    /\ ~IsErr(last.epf[1])
    /\ last.epf[1].v = EmployeePf(last.self.basic_salary.v)
    /\ ~IsErr(last.epf[2])
    /\ last.epf[2].v = EmployerPf(last.self.basic_salary.v)
    /\ ~IsErr(last.total_deductions)
    /\ last.total_deductions.v =
         EmployeePf(last.self.basic_salary.v) + last.self.professional_tax.v
         + last.self.income_tax.v + last.self.other_deductions.v

\* total_earnings - total_deductions of the field values save() was called
\* with.
NetOfSaved == TotalEarnings(ToRow(last.self, 0)) - TotalDeductions(ToRow(last.self, 0))

\* C16: net_salary is never clamped: after save() of a record whose
\* total_deductions exceed its total_earnings, the record is persisted with
\* the negative difference as net_salary (basic_salary 0, professional_tax
\* 200, other_deductions 500 gives -700).
C16_NegativeNetPersisted ==
  (last.op = "save" /\ last.outcome # "IntegrityError" /\ NetOfSaved < 0) =>
    \E r \in RowsOf(last.self) : r.net_salary = NetOfSaved

\* A value computed without a binary floating-point operand.
Exact(x) == x.k \in {"int", "dec"}

\* C18: the calculator's results are exact decimal values, never the
\* outcome of an operation with a float operand, and the derived values
\* net_salary and overtime_rate are persisted as computed, unrounded.
C18_ExactDecimalArithmetic ==
  /\ last.op = "calculate" =>
       (Exact(last.epf[1]) /\ Exact(last.epf[2])
          /\ Exact(last.total_deductions))
  /\ (last.op = "save" /\ last.outcome = "saved") =>
       \E r \in payrolls :
         /\ r.pk = obj.pk
         /\ Exact(obj.net_salary) /\ r.net_salary = obj.net_salary.v
         /\ Exact(obj.overtime_rate) /\ r.overtime_rate = obj.overtime_rate.v

\* The instance save() was called on had been loaded from its row.
Reloaded(self) ==
  /\ self.pk # 0
  /\ \A f \in {"basic_salary", "overtime_hours", "overtime_rate",
               "other_deductions", "net_salary"} : self[f].k = "dec"

\* C19: re-saving a persisted record after reloading it succeeds and leaves
\* the persisted net_salary and overtime_rate exactly as they were.
C19_ResaveIdempotent ==
  (last.op = "save" /\ Reloaded(last.self)) =>
    /\ last.outcome = "saved"
    /\ \E r \in payrolls :
         /\ r.pk = last.self.pk
         /\ r.net_salary = last.self.net_salary.v
         /\ r.overtime_rate = last.self.overtime_rate.v

-----------------------------------------------------------------------------
(* Properties of the payroll store (Spec)                                  *)

\* C2: in every reachable state there is at most one persisted Payroll
\* record for each (employee, month, year).
C2_OneRecordPerKey ==
  \A r1 \in payrolls, r2 \in payrolls :
    (r1.employee = r2.employee /\ r1.month = r2.month /\ r1.year = r2.year)
      => r1 = r2

\* C2 happens: with records for two employees persisted, a further create
\* for a key that has a record was answered with IntegrityError.
C2_DuplicateRefusedByStore ==
  /\ Cardinality(payrolls) = 2
  /\ last.op = "objects_create" /\ last.dup
  /\ last.outcome = "IntegrityError"

\* C3: a bulk run started after another run for the same (month, year) has
\* ended, with no record deleted and the roster unchanged since, ends by
\* reporting a created count of 0.
C3_SecondRunReportsZero ==
  \A w \in Workers :
    (Finished(w) /\ proc[w].second) =>
      (proc[w].pc = "done" /\ proc[w].created_count = 0)

\* C4: no bulk run is ever aborted by an employee's failure: a run never
\* ends with an exception leaving the view.
C4_BatchNeverAborts == \A w \in Workers : proc[w].pc # "error"

\* C5: when both runs passed the existence check for the same employee and
\* period before either wrote, then once both have ended (no record deleted
\* meanwhile) exactly one record for that key is persisted, neither batch
\* was aborted, and the two created counts add up to the number of records
\* the runs created.
C5_RaceLeavesOneRecord ==
  (race # NoKey /\ \A w \in Workers : Finished(w) /\ proc[w].fresh) =>
    /\ Cardinality(RowsOf(race)) = 1
    /\ \A w \in Workers : proc[w].pc = "done"
    /\ proc[1].created_count + proc[2].created_count = Cardinality(made)

\* C6: a create for a key that already has a record fails on uniqueness and
\* changes no record: the table is as it was.
C6_DuplicateCreateNoSideEffects ==
  [][(last'.op \in {"create_payroll", "objects_create"} /\ last'.dup) =>
       (payrolls' = payrolls /\ last'.outcome \in {"invalid", "IntegrityError"})
    ]_vars

\* C6 happens: with two records persisted, create_payroll was posted for a
\* key that has a record and the form did not validate.
C6_DuplicateRefusedByForm ==
  /\ Cardinality(payrolls) = 2
  /\ last.op = "create_payroll" /\ last.dup /\ last.outcome = "invalid"

\* C7: a bulk run with no concurrent writer ends by reporting as created
\* count the number of roster employees that had no record for the period
\* when it started.
C7_CountIsEmployeesLacking ==
  \A w \in Workers :
    (Finished(w) /\ proc[w].solo) =>
      (proc[w].pc = "done" /\ proc[w].created_count = proc[w].lacking)

-----------------------------------------------------------------------------
(* Properties of bulk generation over the leave ledger (SpecHr)            *)

\* C10: when generate_bulk_payroll has processed an employee without a
\* record for (month, year), a record for that key is persisted with
\* basic_salary = the employee's salary, house_rent_allowance = basic_salary
\* x 0.15, travel_allowance = basic_salary x 0.10 and other_deductions =
\* (basic_salary / days of that month in that year) x unpaid leave days.
C10_BulkRecordFields ==
  (last.op = "bulk_create" /\ last.outcome # "IntegrityError") =>
    \E r \in RowsOf(last) :
      /\ r.basic_salary = Salary(last.employee) * Unit
      /\ r.house_rent_allowance = Quantize(MulMills(r.basic_salary, 150))
      /\ r.travel_allowance = Quantize(MulMills(r.basic_salary, 100))
      /\ r.other_deductions =
           Quantize((r.basic_salary
                       \div monthrange(last.year, MonthNum(last.month)))
                    * last.unpaid_leaves)

\* The leaves of the employee and period the last bulk step processed that
\* generate_bulk_payroll is to count.
QualifyingLeaves ==
  ApprovedLeaves(leaves, last.employee, MonthNum(last.month), last.year)

\* Length of a set of leaves in days, first and last day both counted.
RECURSIVE InclusiveDays(_)
InclusiveDays(S) ==
  IF S = {} THEN 0
  ELSE LET l == CHOOSE x \in S : TRUE
       IN (l.span + 1) + InclusiveDays(S \ {l})

\* C11: the unpaid_leave_days bulk generation computes for an employee is
\* the sum of the qualifying leaves' lengths counted inclusively (a leave
\* from day d to day d+1 is 2 days, one with start_date = end_date is 1 day).
C11_InclusiveLeaveDays ==
  (last.op = "bulk_create" /\ \A l \in QualifyingLeaves : l.span >= 0) =>
    last.unpaid_leaves = InclusiveDays(QualifyingLeaves)

\* The requests C12 lets contribute for the employee and period the last
\* bulk step processed: the employee's own, Approved, starting in the period.
OwnApprovedInPeriod ==
  {l \in leaves : /\ l.employee = last.employee
                  /\ l.status = "Approved"
                  /\ l.start.month = MonthNum(last.month)
                  /\ l.start.year = last.year}

\* C12: the record bulk generation creates for an employee carries as
\* other_deductions the daily rate times the days of the employee's own
\* Approved requests starting in the period, and nothing for any other
\* request: 0 when no request qualifies.
C12_OnlyQualifyingLeavesDeducted ==
  (last.op = "bulk_create" /\ last.outcome # "IntegrityError") =>
    \E r \in RowsOf(last) :
      r.other_deductions =
        IF OwnApprovedInPeriod = {} THEN 0
        ELSE Quantize(((Salary(last.employee) * Unit)
                         \div monthrange(last.year, MonthNum(last.month)))
                      * SumSpan(OwnApprovedInPeriod))

\* The currency fields of a row other than net_salary.
CurrencyFields(r) ==
  {r.basic_salary, r.house_rent_allowance, r.travel_allowance,
   r.medical_allowance, r.special_allowance, r.overtime_rate,
   r.professional_tax, r.income_tax, r.other_deductions}

\* C14: every currency field other than net_salary of every persisted
\* record is non-negative, and the leave deduction bulk generation hands to
\* the store as other_deductions is never negative.
C14_CurrencyFieldsNonNegative ==
  /\ \A r \in payrolls : \A x \in CurrencyFields(r) : x >= 0
  /\ last.op = "bulk_create" => last.other_deductions >= 0

-----------------------------------------------------------------------------
(* Properties of the payslip (SpecPayslip)                                 *)

\* The record the last payslip request named.
PayslipRow == CHOOSE r \in payrolls : r.pk = last.pk

\* The amount a table of the payslip shows under a label.
Shown(table, label) ==
  table[CHOOSE i \in DOMAIN table : table[i][1] = label][2]

\* C17: the payslip of a record names the employee and the period, shows
\* total_earnings, total_deductions and employee_pf as the calculator gives
\* them for the record, the record's net salary, and the payment status:
\* Paid when the record's paid flag is true, Pending when it is false.
C17_PayslipContents ==
  (last.op = "generate_payslip_pdf" /\ last.outcome # "404") =>
    /\ last.outcome = "ok"
    /\ last.story.info.employee_id = PayslipRow.employee
    /\ last.story.info.month = PayslipRow.month
    /\ last.story.info.year = PayslipRow.year
    /\ Shown(last.story.earnings, "Total Earnings")
         = TotalEarnings(PayslipRow)
    /\ Shown(last.story.deductions, "Total Deductions")
         = TotalDeductions(PayslipRow)
    /\ Shown(last.story.deductions, "Employee PF")
         = EmployeePf(PayslipRow.basic_salary)
    /\ last.story.net_salary = PayslipRow.net_salary
    /\ "status" \in DOMAIN last.story
    /\ last.story.status = IF PayslipRow.paid THEN "Paid" ELSE "Pending"

\* Sum of the amounts of the first n rows of a payslip table.
RECURSIVE SumRows(_, _)
SumRows(table, n) ==
  IF n = 0 THEN 0 ELSE table[n][2] + SumRows(table, n - 1)

\* The rows of a table above its total row, summed.
Itemized(table) == SumRows(table, Len(table) - 1)

\* C20: in the payslip of any record the itemized earnings rows sum to the
\* Total Earnings row, the itemized deductions rows sum to the Total
\* Deductions row, and Total Earnings minus Total Deductions is the Net
\* Salary shown.
C20_PayslipRowsSum ==
  (last.op = "generate_payslip_pdf" /\ last.outcome # "404") =>
    /\ last.outcome = "ok"
    /\ Itemized(last.story.earnings)
         = Shown(last.story.earnings, "Total Earnings")
    /\ Itemized(last.story.deductions)
         = Shown(last.story.deductions, "Total Deductions")
    /\ Shown(last.story.earnings, "Total Earnings")
         - Shown(last.story.deductions, "Total Deductions")
         = last.story.net_salary

-----------------------------------------------------------------------------
(* Properties of the roster and the payroll table (SpecRoster)             *)

\* C15: a Payroll record is removed by no step other than delete_payroll:
\* whenever a step makes a persisted record disappear, that step is
\* delete_payroll (deleting the employee removes no record).
C15_OnlyDeletePayrollRemoves ==
  [][(\E r \in payrolls : \A q \in payrolls' : q.pk # r.pk)
       => last'.op = "delete_payroll"]_vars

-----------------------------------------------------------------------------
(* Properties of input validation (SpecForms)                              *)

\* C13: a create or edit request whose month is not one of the twelve
\* canonical names or whose basic_salary is negative is answered as invalid
\* input (no save() is attempted), and a bulk run is only ever started for a
\* canonical month and a year the form admits.
C13_InvalidInputRejected ==
  /\ (/\ last.op \in {"create_payroll", "edit_payroll"}
      /\ (last.data.month \notin MonthNames \/ last.data.basic_salary < 0))
       => last.outcome = "invalid"
  /\ \A w \in Workers :
       proc[w].pc # "idle" =>
         /\ proc[w].month \in MonthNames
         /\ proc[w].year >= MIN_YEAR /\ proc[w].year <= MAX_YEAR

(* C21: approve_leave and reject_leave never act on the sender's own leave  *)

\* The status a view writes.
DecidedStatus(op) == IF op = "approve_leave" THEN "Approved" ELSE "Rejected"

\* The step is a request to approve_leave or reject_leave.
DecideRequest ==
  /\ last' # last
  /\ last'.op \in {"approve_leave", "reject_leave"}

\* Leaves that are stored before and after the step with another status.
StatusChanged ==
  {l \in leaves : \E n \in leaves' : n.pk = l.pk /\ n.status # l.status}

\* C21: a request to approve_leave or reject_leave whose user owns the
\* Employee profile of the leave it names changes no leave; a request of
\* another HR user leaves that leave Approved (approve_leave) or Rejected
\* (reject_leave) whatever its status was, and touches no other leave. No
\* step changes a status except such a request of a user who is HR and is
\* not the leave's employee, and no changed status is Pending.
C21_NoDecisionOnOwnLeave ==
  [][/\ DecideRequest =>
          \E l \in leaves :
            /\ l.pk = last'.leave
            /\ is_hr_staff(last'.user)
            /\ IF l.employee = last'.user
               THEN leaves' = leaves
               ELSE leaves' = (leaves \ {l}) \cup
                      {[l EXCEPT !.status = DecidedStatus(last'.op)]}
    /\ \A c \in StatusChanged :
          /\ DecideRequest
          /\ last'.leave = c.pk
          /\ last'.user # c.employee
          /\ \A n \in leaves' : n.pk = c.pk =>
                n.status = DecidedStatus(last'.op) /\ n.status # "Pending"
    ]_vars

\* C21 witness: the employee of a leave that another HR user rejected asks
\* to approve it, and the leave is still Rejected.
C21_OwnRequestRefused ==
  /\ last.op = "approve_leave"
  /\ last.outcome = "own request"
  /\ \E l \in leaves :
       /\ l.pk = last.leave
       /\ l.employee = last.user
       /\ l.status = "Rejected"

====
